---- MODULE Spec2Model ----
(***************************************************************************)
(* NgCookieService (projects/ng-cookie/src/lib/ng-cookie.service.ts).      *)
(*                                                                         *)
(* A JavaScript string is modelled as a sequence of UTF-16 code units,     *)
(* each code unit written as a one-character TLA+ string when it is        *)
(* printable ASCII (<<"a", "=", "1">> is the string 'a=1') and as          *)
(* "u+" \o ToString(code) otherwise (also for the double quote, the        *)
(* backslash and the backquote).                                           *)
(***************************************************************************)
EXTENDS Integers, Sequences, FiniteSets, TLC

(***************************************************************************)
(* Bounds of the model.                                                    *)
(***************************************************************************)
MaxRawAtoms == 3
MaxNameLen == 1
MaxValueLen == 1
MaxClockTicks == 1

(***************************************************************************)
(* Code units.                                                             *)
(***************************************************************************)
Ascii ==
  <<" ", "!", "u+34", "#", "$", "%", "&", "'", "(", ")", "*", "+", ",", "-",
    ".", "/", "0", "1", "2", "3", "4", "5", "6", "7", "8", "9", ":", ";",
    "<", "=", ">", "?", "@", "A", "B", "C", "D", "E", "F", "G", "H", "I",
    "J", "K", "L", "M", "N", "O", "P", "Q", "R", "S", "T", "U", "V", "W",
    "X", "Y", "Z", "[", "u+92", "]", "^", "_", "u+96", "a", "b", "c", "d", "e",
    "f", "g", "h", "i", "j", "k", "l", "m", "n", "o", "p", "q", "r", "s",
    "t", "u", "v", "w", "x", "y", "z", "{", "|", "}", "~">>

\* The code unit of a code, and the code of a code unit.
Chr(n) == IF n \in 32..126 THEN Ascii[n - 31] ELSE "u+" \o ToString(n)

Ord(c) == CHOOSE n \in 0..65535 : Chr(n) = c

DigitChars == {"0", "1", "2", "3", "4", "5", "6", "7", "8", "9"}

HexDigits ==
  <<"0", "1", "2", "3", "4", "5", "6", "7", "8", "9", "A", "B", "C", "D", "E", "F",
    "a", "b", "c", "d", "e", "f">>

HexChars == {HexDigits[i] : i \in 1..22}

HexValue ==
  [c \in HexChars |->
     LET i == CHOOSE k \in 1..22 : HexDigits[k] = c IN IF i <= 16 THEN i - 1 ELSE i - 7]

\* Concatenation of a sequence of strings.
RECURSIVE Concat(_)
Concat(ss) == IF ss = <<>> THEN <<>> ELSE Head(ss) \o Concat(Tail(ss))

\* s.startsWith(t, i), i counted from 1.
StartsAt(s, t, i) ==
  /\ i + Len(t) - 1 <= Len(s)
  /\ \A k \in 1..Len(t) : s[i + k - 1] = t[k]

\* s.includes(t)
Contains(s, t) == \E i \in 1..(Len(s) + 1) : StartsAt(s, t, i)

(***************************************************************************)
(* encodeURIComponent: every code unit except the unreserved ones becomes  *)
(* the %XX escapes of its UTF-8 bytes.  Names and values are drawn from    *)
(* code units below U+D800 (for a lone surrogate it throws).               *)
(***************************************************************************)
UriUnreserved ==
  {Ascii[i] : i \in (34..59) \cup (66..91)} \cup DigitChars
    \cup {"-", "_", ".", "!", "~", "*", "'", "(", ")"}

PctByte(b) == <<"%", HexDigits[(b \div 16) + 1], HexDigits[(b % 16) + 1]>>

\* The escapes of the UTF-8 bytes of code point n.
Utf8Escapes(n) ==
  IF n < 128 THEN PctByte(n)
  ELSE IF n < 2048 THEN PctByte(192 + (n \div 64)) \o PctByte(128 + (n % 64))
  ELSE PctByte(224 + (n \div 4096)) \o PctByte(128 + ((n \div 64) % 64))
         \o PctByte(128 + (n % 64))

encodeUnit(c) == IF c \in UriUnreserved THEN <<c>> ELSE Utf8Escapes(Ord(c))

encodeURIComponent(s) == Concat([i \in 1..Len(s) |-> encodeUnit(s[i])])

(***************************************************************************)
(* decodeURIComponent: [ok |-> FALSE] stands for the URIError it throws on *)
(* a malformed escape or on escapes that are not the UTF-8 encoding of a   *)
(* code point.                                                             *)
(***************************************************************************)
\* The byte of the escape at s[i..i+2], or -1 when there is none.
EscapeAt(s, i) ==
  IF i + 2 <= Len(s) /\ s[i] = "%" /\ {s[i + 1], s[i + 2]} \subseteq HexChars
    THEN 16 * HexValue[s[i + 1]] + HexValue[s[i + 2]]
    ELSE -1

\* The payload of a continuation byte 10xxxxxx, or -1 when b is none.
Continuation(b) == IF b \in 128..191 THEN b - 128 ELSE -1

\* The UTF-8 sequence that byte b starts, c1, c2, c3 being the payloads of
\* the bytes after it: its length in bytes (0 when it is no encoding of a
\* code point) and the code point.
Utf8Sequence(b, c1, c2, c3) ==
  IF b \in 0..127 THEN [len |-> 1, cp |-> b]
  ELSE IF b \in 194..223 /\ c1 >= 0 THEN [len |-> 2, cp |-> (b - 192) * 64 + c1]
  ELSE IF b \in 224..239 /\ c1 >= 0 /\ c2 >= 0
            /\ (b - 224) * 4096 + c1 * 64 + c2 >= 2048
            /\ (b - 224) * 4096 + c1 * 64 + c2 \notin 55296..57343
    THEN [len |-> 3, cp |-> (b - 224) * 4096 + c1 * 64 + c2]
  ELSE IF b \in 240..244 /\ c1 >= 0 /\ c2 >= 0 /\ c3 >= 0
            /\ (b - 240) * 262144 + c1 * 4096 + c2 * 64 + c3 \in 65536..1114111
    THEN [len |-> 4, cp |-> (b - 240) * 262144 + c1 * 4096 + c2 * 64 + c3]
  ELSE [len |-> 0, cp |-> 0]

\* The UTF-16 code units of a decoded sequence, and the code units of the
\* input it took (0 when there was nothing to decode).
DecodedUnits(sequence) ==
  [len   |-> 3 * sequence.len,
   units |-> IF sequence.len = 0 THEN <<>>
             ELSE IF sequence.cp < 65536 THEN <<Chr(sequence.cp)>>
             ELSE <<Chr(55296 + ((sequence.cp - 65536) \div 1024)),
                    Chr(56320 + ((sequence.cp - 65536) % 1024))>>]

\* What decoding reads at i.
DecodeStep(s, i) ==
  IF s[i] # "%" THEN [len |-> 1, units |-> <<s[i]>>]
  ELSE DecodedUnits(Utf8Sequence(EscapeAt(s, i),
                                 Continuation(EscapeAt(s, i + 3)),
                                 Continuation(EscapeAt(s, i + 6)),
                                 Continuation(EscapeAt(s, i + 9))))

\* units in front of the decoding of the rest, when that succeeded
DecodedBefore(units, rest) ==
  IF rest.ok THEN [ok |-> TRUE, value |-> units \o rest.value] ELSE rest

RECURSIVE DecodeFrom(_, _)
RECURSIVE DecodeAfter(_, _, _)
DecodeFrom(s, i) ==
  IF i > Len(s) THEN [ok |-> TRUE, value |-> <<>>]
  ELSE DecodeAfter(s, i, DecodeStep(s, i))

DecodeAfter(s, i, step) ==
  IF step.len = 0 THEN [ok |-> FALSE, value |-> <<>>]
  ELSE DecodedBefore(step.units, DecodeFrom(s, i + step.len))

decodeURIComponent(s) == DecodeFrom(s, 1)

(***************************************************************************)
(* NgCookieService.safeDecodeURIComponent                                   *)
(***************************************************************************)
\* The decoded string, or the input when decoding threw.
DecodedOr(result, encodedURIComponent) ==
  IF result.ok THEN result.value ELSE encodedURIComponent

\* The string left as it is.
safeDecodeSkipped(encodedURIComponent) == encodedURIComponent

safeDecodeURIComponent(encodedURIComponent) ==
  DecodedOr(decodeURIComponent(encodedURIComponent), encodedURIComponent)

(***************************************************************************)
(* NgCookieService.getCookieRegExp and the regular expression it builds,   *)
(*   (?:^NAME|;\s*NAME)=(.*?)(?:;|$)   with the flag g,                     *)
(* NAME being the name with every character of RegExpEscaped escaped, so   *)
(* that it matches itself, code unit for code unit.  (A backslash is not   *)
(* escaped; encodeURIComponent leaves none in the names check and get      *)
(* pass.)                                                                  *)
(***************************************************************************)
RegExpEscaped ==
  {"[", "]", "{", "}", "(", ")", "|", "=", ";", "+", "?", ",", ".", "*", "^", "$"}

\* \s of a regular expression
WhiteSpace ==
  {" "} \cup {"u+" \o ToString(n) : n \in (9..13) \cup (8192..8202) \cup
                {160, 5760, 8232, 8233, 8239, 8287, 12288, 65279}}

\* what . does not match
LineTerminators == {"u+10", "u+13", "u+8232", "u+8233"}

\* The lower-case letter of an upper-case one.
ToLower(c) ==
  IF \E i \in 34..59 : Ascii[i] = c
    THEN Ascii[(CHOOSE i \in 34..59 : Ascii[i] = c) + 32]
    ELSE c

\* Two code units compared as under the flag i.
SameUnitIgnoringCase(a, b) == ToLower(a) = ToLower(b)

\* Two code units as the regular expression compares them (no flag i).
SameUnit(a, b) == a = b

\* s has the pattern's literal t at i.
LiteralAt(s, t, i) ==
  /\ i + Len(t) - 1 <= Len(s)
  /\ \A k \in 1..Len(t) : SameUnit(s[i + k - 1], t[k])

\* The same for the expression NAME=(.*?)(?:;|$), which lacks (?:^|;\s*).
HeadEndsAnywhere(name, s, i) ==
  IF LiteralAt(s, name \o <<"=">>, i) THEN {i + Len(name) + 1} ELSE {}

\* The positions right after "NAME=" for a match that starts at i: from
\* ^NAME (only at the start of the input) or from ;\s*NAME.
HeadEndsAt(name, s, i) ==
  {i + k + Len(name) + 1 : k \in
     {k \in 0..(Len(s) - i + 1) :
        /\ LiteralAt(s, name \o <<"=">>, i + k)
        /\ \/ k = 0 /\ i = 1
           \/ /\ k >= 1 /\ s[i] = ";"
              /\ \A j \in (i + 1)..(i + k - 1) : s[j] \in WhiteSpace}}

\* (.*?)(?:;|$) from p: the position of the first ; or of the end of the
\* input, when no line terminator comes before it; 0 when one does.
FirstStop(s, p, stops) ==
  IF \E j \in p..(Len(s) + 1) :
       /\ j \in stops
       /\ \A x \in p..(j - 1) : x \notin stops /\ s[x] \notin LineTerminators
    THEN CHOOSE j \in stops : \A x \in stops : j <= x
    ELSE 0

TailEndAt(s, p) ==
  FirstStop(s, p, {q \in p..(Len(s) + 1) : q = Len(s) + 1 \/ s[q] = ";"})

NoMatch == [found |-> FALSE, group1 |-> <<>>, lastIndex |-> 0]

\* Of the ways to match from one position (where group 1 starts and where
\* it ends), the one the expression takes: ^NAME before ;\s*NAME, and the
\* longest \s* first.
FirstWay(ways, s, afterName) ==
  IF \A w \in ways : w.q = 0 THEN NoMatch
  ELSE LET ok == {w \in ways : w.q > 0}
           w  == IF \E x \in ok : x.p = afterName
                   THEN CHOOSE x \in ok : x.p = afterName
                   ELSE CHOOSE x \in ok : \A y \in ok : y.p <= x.p
       IN  [found     |-> TRUE,
            group1    |-> SubSeq(s, w.p, w.q - 1),
            lastIndex |-> IF w.q <= Len(s) THEN w.q ELSE w.q - 1]

\* The match of the expression that starts at i, if any.
MatchAt(name, s, i) ==
  FirstWay({[p |-> p, q |-> TailEndAt(s, p)] : p \in HeadEndsAt(name, s, i)},
           s, Len(name) + 2)

\* The leftmost of the matches.
Leftmost(matches) ==
  IF \A i \in DOMAIN matches : ~matches[i].found THEN NoMatch
  ELSE matches[CHOOSE i \in DOMAIN matches :
                 matches[i].found /\ \A j \in DOMAIN matches : matches[j].found => i <= j]

\* regExp.exec(s) of getCookieRegExp(name) whose lastIndex is lastIndex:
\* the leftmost match at or after it.
RegExpExec(name, s, lastIndex) ==
  Leftmost([i \in (lastIndex + 1)..(Len(s) + 1) |-> MatchAt(name, s, i)])

\* A new RegExp object: its lastIndex is 0.
getCookieRegExp(name) == [name |-> name, lastIndex |-> 0]

\* regExp.exec(s) and regExp.test(s)
exec(regExp, s) == RegExpExec(regExp.name, s, regExp.lastIndex)
test(regExp, s) == exec(regExp, s).found

(***************************************************************************)
(* check, get and getAll on the raw cookie string that cookie() returns.   *)
(***************************************************************************)
checkIn(name, cookieString) ==
  test(getCookieRegExp(encodeURIComponent(name)), cookieString)

\* result[1] ? safeDecodeURIComponent(result[1]) : ''
DecodedGroup(result) ==
  IF result.found /\ result.group1 # <<>>
    THEN safeDecodeURIComponent(result.group1) ELSE <<>>

getIn(name, cookieString) ==
  IF checkIn(name, cookieString)
    THEN DecodedGroup(exec(getCookieRegExp(encodeURIComponent(name)), cookieString))
    ELSE <<>>

\* s.split(sep) for a one-unit separator: the pieces between the separators.
RECURSIVE Split(_, _)
Split(s, sep) ==
  IF \A i \in 1..Len(s) : s[i] # sep THEN <<s>>
  ELSE LET i == CHOOSE x \in 1..Len(s) : s[x] = sep /\ \A y \in 1..(x - 1) : s[y] # sep
       IN  <<SubSeq(s, 1, i - 1)>> \o Split(SubSeq(s, i + 1, Len(s)), sep)

\* The string 'undefined', which decodeURIComponent(undefined) returns.
UndefinedString == <<"u", "n", "d", "e", "f", "i", "n", "e", "d">>

ProtoKey == <<"_", "_", "p", "r", "o", "t", "o", "_", "_">>

\* An object's property name that is an array index (a canonical numeral;
\* the model's are short): those come first, in ascending order, when the
\* object is enumerated.  Its number, or -1.
ArrayIndex(key) ==
  IF /\ key # <<>>
     /\ \A i \in 1..Len(key) : key[i] \in DigitChars
     /\ (key[1] = "0" => Len(key) = 1)
     /\ Len(key) <= 9
    THEN LET F[i \in 0..Len(key)] == IF i = 0 THEN 0 ELSE 10 * F[i - 1] + HexValue[key[i]]
         IN  F[Len(key)]
    ELSE -1

\* The property among the own properties, held in enumeration order.
WithProperty(cookies, property, index, indexes) ==
  IF property.name = ProtoKey THEN cookies
  ELSE IF \E i \in 1..Len(cookies) : cookies[i].name = property.name
    THEN [i \in 1..Len(cookies) |->
            IF cookies[i].name = property.name THEN property ELSE cookies[i]]
  ELSE IF index >= 0
    THEN LET n == Cardinality({i \in 1..Len(cookies) :
                                 indexes[i] >= 0 /\ indexes[i] < index})
         IN  SubSeq(cookies, 1, n) \o <<property>> \o SubSeq(cookies, n + 1, Len(cookies))
  ELSE Append(cookies, property)

\* cookies[key] = value
ObjectSet(cookies, key, value) ==
  WithProperty(cookies, [value |-> value, name |-> key], ArrayIndex(key),
               [i \in 1..Len(cookies) |-> ArrayIndex(cookies[i].name)])

\* cookieName.replace(/^ /, '')
StripLeadingSpace(cookieName) ==
  IF cookieName # <<>> /\ cookieName[1] = " " THEN Tail(cookieName) ELSE cookieName

\* const [cookieName, cookieValue] = currentCookie.split('='), and the two
\* decoded; an undefined cookieValue decodes to 'undefined'.
DecodedParts(parts) ==
  <<StripLeadingSpace(parts[1]), IF Len(parts) >= 2 THEN parts[2] ELSE UndefinedString>>

DecodedCookie(currentCookie) ==
  [i \in 1..2 |-> safeDecodeURIComponent(DecodedParts(Split(currentCookie, "="))[i])]

\* cookies[name] = value for the two decoded parts
WithCookie(cookies, decoded) == ObjectSet(cookies, decoded[1], decoded[2])

RECURSIVE getAllFrom(_, _)
getAllFrom(fragments, cookies) ==
  IF fragments = <<>> THEN cookies
  ELSE getAllFrom(Tail(fragments), WithCookie(cookies, DecodedCookie(Head(fragments))))

getAllIn(cookieString) ==
  IF cookieString # <<>> THEN getAllFrom(Split(cookieString, ";"), <<>>) ELSE <<>>

(***************************************************************************)
(* Dates.  A time value (milliseconds since the epoch) is held as the      *)
(* whole days since the epoch and the milliseconds within the day: the     *)
(* model's integers are 32 bits wide and a time value is not.              *)
(***************************************************************************)
MsPerDay == 1000 * 60 * 60 * 24

\* time + n * 1000 * 60 * 60 * 24 (n * MsPerDay) for a whole number n of days
TimePlusDays(time, n) == [day |-> time.day + n, ms |-> time.ms]

DayNames ==
  <<<<"S", "u", "n">>, <<"M", "o", "n">>, <<"T", "u", "e">>, <<"W", "e", "d">>,
    <<"T", "h", "u">>, <<"F", "r", "i">>, <<"S", "a", "t">>>>

MonthNames ==
  <<<<"J", "a", "n">>, <<"F", "e", "b">>, <<"M", "a", "r">>, <<"A", "p", "r">>,
    <<"M", "a", "y">>, <<"J", "u", "n">>, <<"J", "u", "l">>, <<"A", "u", "g">>,
    <<"S", "e", "p">>, <<"O", "c", "t">>, <<"N", "o", "v">>, <<"D", "e", "c">>>>

\* n >= 0 in decimal, with at least width digits
RECURSIVE Decimal(_, _)
Decimal(n, width) ==
  IF n < 10 /\ width <= 1 THEN <<Chr(48 + n)>>
  ELSE Decimal(n \div 10, width - 1) \o <<Chr(48 + (n % 10))>>

\* The civil date of a day since the epoch (proleptic Gregorian calendar).
CivilDate(day) ==
  LET z   == day + 719468
      era == z \div 146097
      doe == z - era * 146097
      yoe == (doe - (doe \div 1460) + (doe \div 36524) - (doe \div 146096)) \div 365
      doy == doe - (365 * yoe + (yoe \div 4) - (yoe \div 100))
      mp  == (5 * doy + 2) \div 153
      m   == IF mp < 10 THEN mp + 3 ELSE mp - 9
  IN  [year  |-> yoe + era * 400 + (IF m <= 2 THEN 1 ELSE 0),
       month |-> m,
       date  |-> doy - ((153 * mp + 2) \div 5) + 1]

\* Date.prototype.toUTCString: 'Thu, 01 Jan 1970 00:00:01 GMT' (years 0..9999)
toUTCString(time) ==
  LET c == CivilDate(time.day)
      secs == time.ms \div 1000
  IN  DayNames[((time.day + 4) % 7) + 1] \o <<",", " ">>
        \o Decimal(c.date, 2) \o <<" ">> \o MonthNames[c.month] \o <<" ">>
        \o Decimal(c.year, 4) \o <<" ">>
        \o Decimal(secs \div 3600, 2) \o <<":">> \o Decimal((secs \div 60) % 60, 2)
        \o <<":">> \o Decimal(secs % 60, 2) \o <<" ", "G", "M", "T">>

\* new Date('Thu, 01 Jan 1970 00:00:01 GMT')
EpochStart == [day |-> 0, ms |-> 1000]

(***************************************************************************)
(* Arguments of set.  An optional string is [def, s]; an optional boolean  *)
(* is "undefined", "true" or "false"; sameSite is "undefined", "Lax",      *)
(* "None" or "Strict"; expires is undefined, a number of whole days or a   *)
(* Date; the third argument of set is one of these or an options object.   *)
(***************************************************************************)
Undefined == "undefined"
NoString == [s |-> <<>>, def |-> FALSE]
Str(s) == [s |-> s, def |-> TRUE]
NoTime == [day |-> 0, ms |-> 0]

NoOptions ==
  [expires     |-> [n |-> 0, date |-> NoTime, kind |-> Undefined],
   path        |-> NoString,
   domain      |-> NoString,
   secure      |-> Undefined,
   sameSite    |-> Undefined,
   partitioned |-> Undefined]

UndefinedArg == [n |-> 0, date |-> NoTime, kind |-> Undefined, options |-> NoOptions]
NumberArg(n) == [n |-> n, date |-> NoTime, kind |-> "number", options |-> NoOptions]
DateArg(d)   == [n |-> 0, date |-> d, kind |-> "Date", options |-> NoOptions]
ObjectArg(o) == [n |-> 0, date |-> NoTime, kind |-> "object", options |-> o]

\* The value of an expires property from a first argument that is no object.
ExpiresOf(arg) == [n |-> arg.n, date |-> arg.date, kind |-> arg.kind]

\* JavaScript truthiness
TruthyString(x) == x.def /\ x.s # <<>>
TruthyExpires(e) == e.kind = "Date" \/ (e.kind = "number" /\ e.n # 0)

SameSiteString(sameSite) ==
  IF sameSite = "Lax" THEN <<"L", "a", "x">>
  ELSE IF sameSite = "None" THEN <<"N", "o", "n", "e">>
  ELSE <<"S", "t", "r", "i", "c", "t">>

(***************************************************************************)
(* NgCookieService.set, up to the write.                                   *)
(***************************************************************************)
\* The condition under which a call is turned into the options form.
IsPositionalCall(expiresOrOptions, path, domain, secure, sameSite, partitioned) ==
  \/ expiresOrOptions.kind = "number"
  \/ expiresOrOptions.kind = "Date"
  \/ TruthyString(path)
  \/ TruthyString(domain)
  \/ secure = "true"
  \/ sameSite # Undefined

optionsBody(expiresOrOptions, path, domain, secure, sameSite, partitioned) ==
  [expires     |-> ExpiresOf(expiresOrOptions),
   path        |-> path,
   domain      |-> domain,
   secure      |-> secure,
   sameSite    |-> IF sameSite # Undefined THEN sameSite ELSE "Lax",
   partitioned |-> partitioned]

\* 'expires=<date>;' or nothing
ExpiresAttribute(options, time) ==
  IF TruthyExpires(options.expires)
    THEN <<"e", "x", "p", "i", "r", "e", "s", "=">>
           \o (IF options.expires.kind = "number"
                 THEN toUTCString(TimePlusDays(time, options.expires.n))
                 ELSE toUTCString(options.expires.date))
           \o <<";">>
    ELSE <<>>

PathAttribute(options) ==
  IF TruthyString(options.path)
    THEN <<"p", "a", "t", "h", "=">> \o options.path.s \o <<";">>
    ELSE <<>>

DomainAttribute(options) ==
  IF TruthyString(options.domain)
    THEN <<"d", "o", "m", "a", "i", "n", "=">> \o options.domain.s \o <<";">>
    ELSE <<>>

\* secure is never forced
SecureNeverForced(options) == FALSE

\* secure is forced, with a warning
SecureForced(options) == options.secure = "false" /\ options.sameSite = "None"

SecureAttribute(options) ==
  IF SecureForced(options) \/ options.secure = "true"
    THEN <<"s", "e", "c", "u", "r", "e", ";">>
    ELSE <<>>

SameSiteAttribute(options) ==
  <<"s", "a", "m", "e", "S", "i", "t", "e", "=">>
    \o SameSiteString(IF options.sameSite = Undefined THEN "Lax" ELSE options.sameSite)
    \o <<";">>

PartitionedAttribute(options) ==
  IF options.partitioned = "true"
    THEN <<"P", "a", "r", "t", "i", "t", "i", "o", "n", "e", "d", ";">>
    ELSE <<>>

buildCookieString(name, value, options, time) ==
  encodeURIComponent(name) \o <<"=">> \o encodeURIComponent(value) \o <<";">>
    \o ExpiresAttribute(options, time)
    \o PathAttribute(options)
    \o DomainAttribute(options)
    \o SecureAttribute(options)
    \o SameSiteAttribute(options)
    \o PartitionedAttribute(options)

\* What one call of set does before it writes: the cookie string, the
\* number of warnings and the number of times set was entered.  The first
\* argument is an options object only when the other attributes are absent
\* (the two signatures of set).
RECURSIVE setCall(_, _, _, _, _, _, _, _, _)
setCall(name, value, expiresOrOptions, path, domain, secure, sameSite, partitioned, time) ==
  IF IsPositionalCall(expiresOrOptions, path, domain, secure, sameSite, partitioned)
    THEN LET inner == setCall(name, value,
                        ObjectArg(optionsBody(expiresOrOptions, path, domain, secure,
                                              sameSite, partitioned)),
                        NoString, NoString, Undefined, Undefined, Undefined, time)
         IN  [inner EXCEPT !.entered = @ + 1]
    ELSE LET options == IF expiresOrOptions.kind = "object"
                          THEN expiresOrOptions.options ELSE NoOptions
         IN  [cookieString |-> buildCookieString(name, value, options, time),
              entered      |-> 1,
              warnings     |-> IF SecureForced(options) THEN 1 ELSE 0]

(***************************************************************************)
(* The service and what it is given: the platform (documentIsAccessible),  *)
(* the document's cookie string, the incoming request, the outgoing        *)
(* response, and the clock.  `last' is the last call made on the service,  *)
(* with what it returned, wrote and warned.                                *)
(***************************************************************************)
VARIABLES documentIsAccessible, documentCookie, request, responseInit, now, last

vars == <<documentIsAccessible, documentCookie, request, responseInit, now, last>>

\* request: null, or its headers with or without a cookie header
NoRequest == [present |-> FALSE, cookie |-> NoString]
RequestWith(cookie) == [present |-> TRUE, cookie |-> cookie]

\* responseInit: null, or with or without headers; setCookie holds the
\* values of the Set-Cookie entries of the headers
NoResponseInit == [present |-> FALSE, headers |-> FALSE, setCookie |-> <<>>]
ResponseInitWithoutHeaders == [present |-> TRUE, headers |-> FALSE, setCookie |-> <<>>]
ResponseInitWithHeaders == [present |-> TRUE, headers |-> TRUE, setCookie |-> <<>>]

NoCall ==
  [value       |-> <<>>,
   name        |-> <<>>,
   time        |-> NoTime,
   path        |-> NoString,
   domain      |-> NoString,
   secure      |-> Undefined,
   sameSite    |-> Undefined,
   partitioned |-> Undefined,
   arg         |-> UndefinedArg,
   entered     |-> 0,
   warnings    |-> 0,
   op          |-> "none",
   form        |-> "",
   bool        |-> FALSE,
   string      |-> <<>>,
   object      |-> <<>>,
   writes      |-> <<>>,
   threw       |-> FALSE]

\* A cookie() that reads back, on the server, what was written.
cookieReadingResponse ==
  IF documentIsAccessible THEN documentCookie
  ELSE IF responseInit.setCookie # <<>> THEN responseInit.setCookie[1]
  ELSE IF request.present /\ request.cookie.def THEN request.cookie.s
  ELSE <<>>

\* NgCookieService.cookie
cookie ==
  IF documentIsAccessible THEN documentCookie
  ELSE IF request.present /\ request.cookie.def THEN request.cookie.s
  ELSE <<>>

check(name) == checkIn(name, cookie)
get(name) == getIn(name, cookie)
getAll == getAllIn(cookie)

\* Headers.set('Set-Cookie', value) on the entries of that name
HeadersSet(entries, value) == <<value>>

RECURSIVE HeadersAfter(_, _)
HeadersAfter(entries, cookieStrings) ==
  IF cookieStrings = <<>> THEN entries
  ELSE HeadersAfter(HeadersSet(entries, Head(cookieStrings)), Tail(cookieStrings))

\* What the document may hold after an assignment to document.cookie: the
\* browser decides (it may refuse the cookie, store it, or drop an expired
\* one), so any of the strings the model gives a document, or no change.
DocumentCookies == {<<>>, <<"a", "=", "1", ";", " ", "b", "=", "2">>}

\* The writes of one call, in order: each goes to document.cookie, or to
\* the response headers when there are some.
Write(cookieStrings) ==
  /\ IF documentIsAccessible /\ cookieStrings # <<>>
       THEN documentCookie' \in DocumentCookies \cup {documentCookie}
       ELSE documentCookie' = documentCookie
  /\ IF ~documentIsAccessible /\ responseInit.present /\ responseInit.headers
       THEN responseInit' =
              [responseInit EXCEPT !.setCookie = HeadersAfter(@, cookieStrings)]
       ELSE responseInit' = responseInit

(***************************************************************************)
(* The operations.                                                         *)
(***************************************************************************)
Check(name) ==
  /\ last' = [NoCall EXCEPT !.op = "check", !.name = name, !.bool = check(name)]
  /\ UNCHANGED <<documentIsAccessible, documentCookie, request, responseInit, now>>

Get(name) ==
  /\ last' = [NoCall EXCEPT !.op = "get", !.name = name, !.string = get(name)]
  /\ UNCHANGED <<documentIsAccessible, documentCookie, request, responseInit, now>>

GetAll ==
  /\ last' = [NoCall EXCEPT !.op = "getAll", !.object = getAll]
  /\ UNCHANGED <<documentIsAccessible, documentCookie, request, responseInit, now>>

\* set(name, value, expires, path, domain, secure, sameSite, partitioned)
SetPositional(name, value, expires, path, domain, secure, sameSite, partitioned) ==
  LET r == setCall(name, value, expires, path, domain, secure, sameSite, partitioned, now)
  IN  /\ Write(<<r.cookieString>>)
      /\ last' = [NoCall EXCEPT !.op = "set", !.form = "positional",
                    !.name = name, !.value = value, !.arg = expires,
                    !.path = path, !.domain = domain, !.secure = secure,
                    !.sameSite = sameSite, !.partitioned = partitioned,
                    !.time = now, !.writes = <<r.cookieString>>,
                    !.warnings = r.warnings, !.entered = r.entered]
      /\ UNCHANGED <<documentIsAccessible, request, now>>

\* set(name, value, options), options an object or undefined
SetOptions(name, value, options) ==
  LET r == setCall(name, value, options, NoString, NoString, Undefined, Undefined,
                   Undefined, now)
  IN  /\ Write(<<r.cookieString>>)
      /\ last' = [NoCall EXCEPT !.op = "set", !.form = "options",
                    !.name = name, !.value = value, !.arg = options,
                    !.time = now, !.writes = <<r.cookieString>>,
                    !.warnings = r.warnings, !.entered = r.entered]
      /\ UNCHANGED <<documentIsAccessible, request, now>>

\* What delete(name, path, domain, secure, sameSite) passes to set.
deleteOptions(path, domain, secure, sameSite) ==
  [expires     |-> [n |-> 0, date |-> EpochStart, kind |-> "Date"],
   path        |-> path,
   domain      |-> domain,
   secure      |-> secure,
   sameSite    |-> IF sameSite = Undefined THEN "Lax" ELSE sameSite,
   partitioned |-> Undefined]

deleteCall(name, path, domain, secure, sameSite, time) ==
  setCall(name, <<>>, ObjectArg(deleteOptions(path, domain, secure, sameSite)),
          NoString, NoString, Undefined, Undefined, Undefined, time)

Delete(name, path, domain, secure, sameSite) ==
  LET r == deleteCall(name, path, domain, secure, sameSite, now)
  IN  /\ Write(<<r.cookieString>>)
      /\ last' = [NoCall EXCEPT !.op = "delete", !.name = name,
                    !.path = path, !.domain = domain, !.secure = secure,
                    !.sameSite = sameSite, !.time = now,
                    !.writes = <<r.cookieString>>,
                    !.warnings = r.warnings, !.entered = r.entered]
      /\ UNCHANGED <<documentIsAccessible, request, now>>

HasOwnPropertyKey ==
  <<"h", "a", "s", "O", "w", "n", "P", "r", "o", "p", "e", "r", "t", "y">>

\* cookies.hasOwnProperty(cookieName) throws a TypeError when the object has
\* a property of its own named hasOwnProperty, which is a string.
HasOwnPropertyThrows(cookies) ==
  \E i \in 1..Len(cookies) : cookies[i].name = HasOwnPropertyKey

\* The calls of delete that deleteAll makes for the cookies it read.
deleteAllCalls(cookies, path, domain, secure, sameSite, time) ==
  IF HasOwnPropertyThrows(cookies) THEN <<>>
  ELSE [i \in 1..Len(cookies) |->
          deleteCall(cookies[i].name, path, domain, secure,
                     IF sameSite = Undefined THEN "Lax" ELSE sameSite, time)]

RECURSIVE SumWarnings(_)
SumWarnings(calls) ==
  IF calls = <<>> THEN 0 ELSE Head(calls).warnings + SumWarnings(Tail(calls))

DeleteAll(path, domain, secure, sameSite) ==
  LET cookies == getAll
      calls   == deleteAllCalls(cookies, path, domain, secure, sameSite, now)
      strings == [i \in 1..Len(calls) |-> calls[i].cookieString]
  IN  /\ Write(strings)
      /\ last' = [NoCall EXCEPT !.op = "deleteAll",
                    !.path = path, !.domain = domain, !.secure = secure,
                    !.sameSite = sameSite, !.time = now, !.object = cookies,
                    !.writes = strings, !.warnings = SumWarnings(calls),
                    !.entered = Len(calls),
                    !.threw = HasOwnPropertyThrows(cookies)]
      /\ UNCHANGED <<documentIsAccessible, request, now>>

\* The clock: half a day passes.
StartTime == [day |-> 19781, ms |-> 0]

Ticks(time) == 2 * (time.day - StartTime.day) + (time.ms \div (MsPerDay \div 2))

Tick ==
  /\ Ticks(now) < MaxClockTicks
  /\ now' = IF now.ms = 0 THEN [now EXCEPT !.ms = MsPerDay \div 2]
            ELSE [day |-> now.day + 1, ms |-> 0]
  /\ UNCHANGED <<documentIsAccessible, documentCookie, request, responseInit, last>>

\* A service on the browser (no request, no response) or on the server.
InitWith(cookies) ==
  /\ documentIsAccessible \in BOOLEAN
  /\ documentCookie \in IF documentIsAccessible THEN cookies ELSE {<<>>}
  /\ request \in IF documentIsAccessible THEN {NoRequest}
                 ELSE {NoRequest, RequestWith(NoString)}
                        \cup {RequestWith(Str(c)) : c \in cookies}
  /\ responseInit \in IF documentIsAccessible THEN {NoResponseInit}
                      ELSE {NoResponseInit, ResponseInitWithoutHeaders,
                            ResponseInitWithHeaders}
  /\ now = StartTime
  /\ last = NoCall

(***************************************************************************)
(* Inputs.                                                                 *)
(***************************************************************************)
\* The strings of at most n pieces, each piece one of atoms.
RECURSIVE StringsOf(_, _)
StringsOf(atoms, n) ==
  IF n = 0 THEN {<<>>}
  ELSE LET shorter == StringsOf(atoms, n - 1) IN
         shorter \cup {s \o a : s \in shorter, a \in atoms}

\* Cookie strings of a request or a document.
ServiceCookies == DocumentCookies \cup {HasOwnPropertyKey \o <<"=", "1">>}

ServiceNames == {<<"a">>, <<"b">>}
ServiceValues == {<<"2">>}

ExpiresArgs ==
  {UndefinedArg, NumberArg(0), NumberArg(1), NumberArg(-1),
   DateArg([day |-> 19782, ms |-> 86399000])}
Paths == {NoString, Str(<<>>), Str(<<"/">>)}
Domains == {NoString, Str(<<"x", ".", "y">>)}
Booleans == {Undefined, "true", "false"}
SameSites == {Undefined, "Lax", "None", "Strict"}

AllOptions ==
  [expires     : {ExpiresOf(e) : e \in ExpiresArgs},
   path        : Paths,
   domain      : Domains,
   secure      : Booleans,
   sameSite    : SameSites,
   partitioned : Booleans]

\* The third argument of the options form.
AllOptionsArgs == {UndefinedArg} \cup {ObjectArg(o) : o \in AllOptions}

\* A few of them, for the runs that make several calls.
SomeOptions ==
  { NoOptions,
    [NoOptions EXCEPT !.path = Str(<<"/">>)],
    [NoOptions EXCEPT !.secure = "false", !.sameSite = "None"],
    [NoOptions EXCEPT !.expires = ExpiresOf(NumberArg(1))] }

\* Names and values with code units that encodeURIComponent escapes or not.
NameUnits == {<<"a">>, <<"=">>, <<";">>, <<Chr(233)>>}
ValueUnits == {<<"=">>, <<";">>, <<"%">>, <<Chr(233)>>}
WideNames == StringsOf(NameUnits, MaxNameLen)
WideValues == StringsOf(ValueUnits, MaxValueLen)

\* Raw cookie strings: pieces of names, separators, escapes and a lone %.
RawAtoms ==
  {<<"a">>, <<"A">>, <<"=">>, <<";">>, <<" ">>, <<"%", "3", "D">>, <<"%">>}
RawStrings == StringsOf(RawAtoms, MaxRawAtoms)

ReadNames == StringsOf({<<"a">>, <<"A">>}, MaxNameLen) \cup {<<"=">>}

(***************************************************************************)
(* Spec: a service on which any of the operations is called, any number of *)
(* times, in any order.                                                    *)
(***************************************************************************)
Init == InitWith(ServiceCookies)

Next ==
  \/ \E name \in ServiceNames : Check(name)
  \/ \E name \in ServiceNames : Get(name)
  \/ GetAll
  \/ \E name \in ServiceNames, value \in ServiceValues, o \in SomeOptions :
       SetPositional(name, value,
                     [n |-> o.expires.n, date |-> o.expires.date,
                      kind |-> o.expires.kind, options |-> NoOptions],
                     o.path, o.domain, o.secure, o.sameSite, o.partitioned)
  \/ \E name \in ServiceNames, value \in ServiceValues,
        options \in {UndefinedArg} \cup {ObjectArg(o) : o \in SomeOptions} :
       SetOptions(name, value, options)
  \/ \E name \in ServiceNames, o \in SomeOptions :
       Delete(name, o.path, o.domain, o.secure, o.sameSite)
  \/ \E o \in SomeOptions : DeleteAll(o.path, o.domain, o.secure, o.sameSite)

Spec == Init /\ [][Next]_vars

(***************************************************************************)
(* SpecBuild: one call of set on a new service, with every combination of  *)
(* attributes in both forms, and with every name and value.                *)
(***************************************************************************)
InitBuild ==
  InitWith({<<>>}) /\ request = NoRequest /\ responseInit # ResponseInitWithoutHeaders

NextBuild ==
  \/ /\ last.op = "none"
     /\ \E e \in ExpiresArgs, path \in Paths, domain \in Domains, secure \in Booleans,
           sameSite \in SameSites, partitioned \in Booleans :
          SetPositional(<<"a">>, <<"1">>, e, path, domain, secure, sameSite, partitioned)
  \/ /\ last.op = "none"
     /\ \E options \in AllOptionsArgs : SetOptions(<<"a">>, <<"1">>, options)
  \/ /\ last.op = "none"
     /\ \E name \in WideNames, value \in WideValues,
           options \in {UndefinedArg} :
          SetOptions(name, value, options)
  \/ /\ last.op = "none"
     /\ Tick

SpecBuild == InitBuild /\ [][NextBuild]_vars

(***************************************************************************)
(* SpecParse: one read on a service in the browser whose document.cookie   *)
(* is any raw string, and check called again after a check.                *)
(***************************************************************************)
InitParse == InitWith(RawStrings) /\ documentIsAccessible

NextParse ==
  \/ /\ last.op = "none"
     /\ \E name \in ReadNames : Check(name)
  \/ /\ last.op = "none"
     /\ \E name \in ReadNames : Get(name)
  \/ /\ last.op = "none"
     /\ GetAll
  \/ /\ last.op = "check"
     /\ \E name \in ReadNames : Check(name)

SpecParse == InitParse /\ [][NextParse]_vars

(***************************************************************************)
(* Properties.                                                             *)
(***************************************************************************)
\* The attributes a call of set was given, in either form.
GivenOptions(call) ==
  IF call.form = "options"
    THEN (IF call.arg.kind = "object" THEN call.arg.options ELSE NoOptions)
    ELSE [expires     |-> ExpiresOf(call.arg),
          path        |-> call.path,
          domain      |-> call.domain,
          secure      |-> call.secure,
          sameSite    |-> call.sameSite,
          partitioned |-> call.partitioned]

\* What follows the first ; of a cookie string: its attributes.
AttributesOf(cookieString) ==
  SubSeq(cookieString,
         (CHOOSE i \in 1..Len(cookieString) :
            cookieString[i] = ";" /\ \A j \in 1..(i - 1) : cookieString[j] # ";") + 1,
         Len(cookieString))

ServerWithHeaders ==
  ~documentIsAccessible /\ responseInit.present /\ responseInit.headers

\* A step that is a call of set, delete or deleteAll.
WriteCall ==
  /\ last'.op \in {"set", "delete", "deleteAll"}
  /\ last' # last \/ responseInit' # responseInit \/ documentCookie' # documentCookie

\* C1: on the server, with response headers, every write appends its own
\* Set-Cookie entry: the entries after a call are those before it followed by
\* the cookie strings the call wrote, so that none is replaced or lost.
C1_EveryWriteAppends ==
  [][(ServerWithHeaders /\ WriteCall)
       => responseInit'.setCookie = responseInit.setCookie \o last'.writes]_vars

\* check, get and getAll return the same of two raw cookie strings.
SameReads(before, after) ==
  /\ \A name \in ServiceNames :
       /\ checkIn(name, after) = checkIn(name, before)
       /\ getIn(name, after) = getIn(name, before)
  /\ getAllIn(after) = getAllIn(before)

\* C2: on the server no step, and so no sequence of set, delete and
\* deleteAll, changes what check(name), get(name) and getAll() return.
C2_WritesNotObservable ==
  [][~documentIsAccessible => SameReads(cookie, cookie')]_vars

\* A set of a cookie the request holds has reached the response headers,
\* and get still returns the request's value.
C2_Witness ==
  /\ ~documentIsAccessible
  /\ last.op = "set"
  /\ last.writes # <<>>
  /\ responseInit.setCookie = last.writes
  /\ check(last.name)
  /\ get(last.name) # last.value

\* C3: a set given secure false and sameSite 'None', in either form, writes
\* one cookie string whose attributes hold 'secure;' and 'sameSite=None;',
\* and warns.
C3_SecureForcedWithSameSiteNone ==
  (/\ last.op = "set"
   /\ GivenOptions(last).secure = "false"
   /\ GivenOptions(last).sameSite = "None")
    => /\ Len(last.writes) = 1
       /\ Contains(AttributesOf(last.writes[1]), <<"s", "e", "c", "u", "r", "e", ";">>)
       /\ Contains(AttributesOf(last.writes[1]),
                   <<"s", "a", "m", "e", "S", "i", "t", "e", "=", "N", "o", "n", "e", ";">>)
       /\ last.warnings >= 1

C3_Witness ==
  /\ last.op = "set"
  /\ last.form = "positional"
  /\ last.secure = "false"
  /\ last.sameSite = "None"
  /\ last.warnings = 1
  /\ Contains(last.writes[1], <<";", "s", "e", "c", "u", "r", "e", ";">>)

\* An attribute argument is present in a call.
AnyAttributeGiven(call) ==
  \/ GivenOptions(call).expires.kind # Undefined
  \/ GivenOptions(call).path.def
  \/ GivenOptions(call).domain.def
  \/ GivenOptions(call).secure # Undefined
  \/ GivenOptions(call).sameSite # Undefined
  \/ GivenOptions(call).partitioned # Undefined

\* C4: a positional set with any attribute argument present writes exactly
\* the cookie string that set(name, value, {expires, path, domain, secure,
\* sameSite, partitioned}) writes, and enters set at most once more.
C4_PositionalAsOptions ==
  (last.op = "set" /\ last.form = "positional" /\ AnyAttributeGiven(last))
    => /\ last.writes =
            <<setCall(last.name, last.value, ObjectArg(GivenOptions(last)),
                      NoString, NoString, Undefined, Undefined, Undefined,
                      last.time).cookieString>>
       /\ last.entered <= 2

\* The name and the raw value of a fragment split on its first = only.
SplitOnFirstEquals(fragment) ==
  IF \A i \in 1..Len(fragment) : fragment[i] # "="
    THEN <<fragment, UndefinedString>>
    ELSE LET i == CHOOSE x \in 1..Len(fragment) :
                    fragment[x] = "=" /\ \A y \in 1..(x - 1) : fragment[y] # "="
         IN  <<SubSeq(fragment, 1, i - 1), SubSeq(fragment, i + 1, Len(fragment))>>

\* The mapping of the fragments, a later one overwriting an earlier one.
RECURSIVE MappingOfFragments(_)
MappingOfFragments(fragments) ==
  IF fragments = <<>> THEN [name \in {} |-> <<>>]
  ELSE LET earlier == MappingOfFragments(SubSeq(fragments, 1, Len(fragments) - 1))
           parts   == SplitOnFirstEquals(fragments[Len(fragments)])
           key     == safeDecodeURIComponent(StripLeadingSpace(parts[1]))
       IN  [name \in DOMAIN earlier \cup {key} |->
              IF name = key THEN safeDecodeURIComponent(parts[2]) ELSE earlier[name]]

\* An object as a mapping from its property names.
AsMapping(object) ==
  [name \in {object[i].name : i \in 1..Len(object)} |->
     object[CHOOSE i \in 1..Len(object) : object[i].name = name].value]

\* C5: getAll() returns the mapping got by splitting the raw cookie string
\* on ';' and each fragment on its first '=' only, stripping one leading
\* space from the name and decoding name and value, a later fragment
\* overwriting an earlier one; the empty mapping for the empty string.
C5_GetAllSplitsOnFirstEquals ==
  last.op = "getAll"
    => AsMapping(last.object) =
         (IF cookie = <<>> THEN [name \in {} |-> <<>>]
          ELSE MappingOfFragments(Split(cookie, ";")))

\* C6: a set given expires as a number d of days writes
\* 'expires=<the date d days after the call>;', and given a date writes
\* 'expires=<that date>;'.
C6_ExpiresEmitted ==
  (last.op = "set" /\ GivenOptions(last).expires.kind # Undefined)
    => Contains(AttributesOf(last.writes[1]),
                <<"e", "x", "p", "i", "r", "e", "s", "=">>
                  \o toUTCString(IF GivenOptions(last).expires.kind = "number"
                                   THEN TimePlusDays(last.time, GivenOptions(last).expires.n)
                                   ELSE GivenOptions(last).expires.date)
                  \o <<";">>)

\* The one cookie string written is encodedName=encodedValue;sameSite=Lax;
\* and neither encoding holds a ; or an =.
WritesEncoded(writes, encodedName, encodedValue) ==
  /\ writes = <<encodedName \o <<"=">> \o encodedValue
                 \o <<";", "s", "a", "m", "e", "S", "i", "t", "e", "=", "L", "a", "x", ";">>>>
  /\ \A i \in 1..Len(encodedName) : encodedName[i] \notin {";", "="}
  /\ \A i \in 1..Len(encodedValue) : encodedValue[i] \notin {";", "="}

\* C7: a set of name and value with no attributes writes
\* encode(name)=encode(value);sameSite=Lax; in which neither encoding holds
\* a ; or an =, and reading the name out of that string returns the value.
C7_RoundTrip ==
  (last.op = "set" /\ GivenOptions(last) = NoOptions)
    => /\ WritesEncoded(last.writes, encodeURIComponent(last.name),
                        encodeURIComponent(last.value))
       /\ getIn(last.name, last.writes[1]) = last.value

C7_Witness ==
  /\ last.op = "set"
  /\ GivenOptions(last) = NoOptions
  /\ last.name = <<";">>
  /\ last.value = <<"=">>
  /\ getIn(last.name, last.writes[1]) = <<"=">>

\* A fragment without its leading white space.
RECURSIVE StripWhiteSpace(_)
StripWhiteSpace(fragment) ==
  IF fragment # <<>> /\ fragment[1] \in WhiteSpace
    THEN StripWhiteSpace(Tail(fragment)) ELSE fragment

\* t is, to the comparison same, the name of a cookie of the raw string: it
\* stands at the start of the string, or after a ; and white space, and
\* an = follows it.
IsCookieNameIn(t, raw, same(_, _)) ==
  \E j \in 1..Len(Split(raw, ";")) :
    LET fragment == IF j = 1 THEN Split(raw, ";")[j]
                    ELSE StripWhiteSpace(Split(raw, ";")[j])
    IN  /\ Len(t) + 1 <= Len(fragment)
        /\ \A k \in 1..Len(t) : same(fragment[k], t[k])
        /\ fragment[Len(t) + 1] = "="

Identical(a, b) == a = b

\* C8: check(name) is false whenever the encoded name is not a whole cookie
\* name of the raw string (so also when it is only a part of another
\* cookie's name, or occurs only in a value), and check called again with
\* no write in between returns the same.
C8_CheckMatchesWholeNames ==
  /\ []((last.op = "check"
           /\ ~IsCookieNameIn(encodeURIComponent(last.name), cookie, Identical))
          => ~last.bool)
  /\ [][(last.op = "check" /\ last'.op = "check" /\ last'.name = last.name)
          => last'.bool = last.bool]_vars

\* check('a') on 'aa=': a is only the end of another cookie's name.
C8_Witness ==
  /\ last.op = "check"
  /\ last.name = <<"a">>
  /\ cookie = <<"a", "a", "=">>
  /\ ~last.bool

\* The names deleteAll read, and the cookie string a set of an empty value
\* that expires at 'Thu, 01 Jan 1970 00:00:01 GMT' builds for a name.
DeletionOf(name, call) ==
  setCall(name, <<>>,
          ObjectArg([expires     |-> ExpiresOf(DateArg([day |-> 0, ms |-> 1000])),
                     path        |-> call.path,
                     domain      |-> call.domain,
                     secure      |-> call.secure,
                     sameSite    |-> IF call.sameSite = Undefined THEN "Lax"
                                     ELSE call.sameSite,
                     partitioned |-> Undefined]),
          NoString, NoString, Undefined, Undefined, Undefined, call.time).cookieString

\* C9: deleteAll makes one write for each name getAll() gave it and no
\* other: the cookie string of the name with an empty value, expires 'Thu,
\* 01 Jan 1970 00:00:01 GMT' and the path, domain, secure and sameSite given.
C9_DeleteAllWritesEachName ==
  last.op = "deleteAll"
    => /\ Len(last.writes) = Len(last.object)
       /\ \A i \in 1..Len(last.object) :
            /\ Cardinality({j \in 1..Len(last.writes) :
                              last.writes[j] = DeletionOf(last.object[i].name, last)}) = 1
            /\ StartsAt(DeletionOf(last.object[i].name, last),
                        encodeURIComponent(last.object[i].name)
                          \o <<"=", ";", "e", "x", "p", "i", "r", "e", "s", "=",
                               "T", "h", "u", ",", " ", "0", "1", " ", "J", "a", "n", " ",
                               "1", "9", "7", "0", " ", "0", "0", ":", "0", "0", ":",
                               "0", "1", " ", "G", "M", "T", ";">>, 1)

\* The raw string holds a cookie whose name differs from the requested one
\* in letter case only, and none with the requested name.
OnlyInOtherCase(name, raw) ==
  /\ IsCookieNameIn(encodeURIComponent(name), raw, SameUnitIgnoringCase)
  /\ ~IsCookieNameIn(encodeURIComponent(name), raw, Identical)

\* C10 as claimed: the cookie name is matched without regard to case, so
\* that check is true for a raw string that holds the name in another case.
C10_MatchesIgnoringCase ==
  (last.op = "check" /\ OnlyInOtherCase(last.name, cookie)) => last.bool

\* C10 as amended: the cookie name is matched with regard to case: for a raw
\* string that holds the requested name in another letter case only, check
\* returns false and get returns the empty string.
C10_MatchesCase ==
  OnlyInOtherCase(last.name, cookie)
    => /\ last.op = "check" => ~last.bool
       /\ last.op = "get" => last.string = <<>>

\* get('a') on 'A=a'
C10_Witness ==
  /\ last.op = "get"
  /\ last.name = <<"a">>
  /\ cookie = <<"A", "=", "a">>
  /\ last.string = <<>>

====
